---- MODULE Spec2Model ----
(***************************************************************************)
(* The active-properties route (import POST, proximity PUT) and the        *)
(* drive-time adjustment of the property calculator.                       *)
(*                                                                         *)
(* Units.  Latitude and longitude are integers in 1e-4 degrees, distances  *)
(* and radii are hundredths of a mile (the route rounds a distance to two  *)
(* decimals), drive times are tenths of an hour (the calculator rounds to  *)
(* one decimal), proximity factors are hundredths (0.25 is 25).            *)
(*                                                                         *)
(* Left out of a stored row: uploaded_at (a timestamp no claim reads).     *)
(***************************************************************************)
EXTENDS Integers, Sequences, FiniteSets, TLC

\* Largest number of data rows in an imported CSV file.
MaxRows == 18

VARIABLES
    table,       \* the rows of active_properties, in heap (insertion) order
    apiKey,      \* whether GOOGLE_MAPS_API_KEY is configured
    imp,         \* the import request (POST) in progress, if any
    last,        \* the last response the route sent, with its request
    mem,         \* an earlier proximity exchange, kept to compare with `last`
    ui           \* the state of PropertyCalculator and of calculateDriveTime

vars == <<table, apiKey, imp, last, mem, ui>>

----------------------------------------------------------------------------
(* Strings.  TLA+ strings are atomic, so the two string conversions the    *)
(* route uses are given on the strings that occur in the model.            *)

\* String.prototype.toLowerCase
ToLowerCase(s) ==
    CASE s = "PHX-SW" -> "phx-sw"
      [] s = "Phx - SouthWest" -> "phx - southwest"
      [] s = "Phx - SouthEast" -> "phx - southeast"
      [] s = " Phx-SW " -> " phx-sw "
      [] s = "Tucson" -> "tucson"
      [] OTHER -> s

\* String.prototype.trim
Trim(s) ==
    CASE s = " phx-sw " -> "phx-sw"
      [] s = " Phx-SW " -> "Phx-SW"
      [] s = " " -> ""
      [] OTHER -> s

----------------------------------------------------------------------------
(* Coordinates and the haversine distance.                                 *)

Origin1 == [lat |-> 334500, lng |-> -1120700]
Origin2 == [lat |-> 334600, lng |-> -1120700]
\* A valid coordinate on the equator: latitude 0.
OriginEquator == [lat |-> 0, lng |-> -1120700]

Pt0    == [lat |-> 334500, lng |-> -1120700]
PtA    == [lat |-> 334543, lng |-> -1120700]
PtB    == [lat |-> 334616, lng |-> -1120700]
PtEdge == [lat |-> 334645, lng |-> -1120700]
PtOut  == [lat |-> 334646, lng |-> -1120700]
PtMid  == [lat |-> 334717, lng |-> -1120700]
PtEast == [lat |-> 334500, lng |-> -1120650]

\* A valid coordinate in the other hemispheres, opposite Pt0 on the globe's
\* latitude and longitude.
PtAntipode == [lat |-> -334500, lng |-> 679300]

\* The coordinates of the model.
Coordinates ==
    <<Pt0, Origin2, PtA, PtB, PtEdge, PtOut, PtMid, PtEast, OriginEquator, PtAntipode>>

CoordinateIndex(lat, lng) ==
    CHOOSE i \in 1..Len(Coordinates) : Coordinates[i] = [lat |-> lat, lng |-> lng]

\* A flat-earth distance taking the cosine of the first latitude only:
\* R * sqrt(dLat^2 + (dLon * cos(lat))^2), rounded to hundredths of a mile.
FirstLatitudeTable ==
    << <<0, 69, 30, 80, 100, 101, 150, 29, 231131, 1136051>>,
       <<69, 0, 39, 11, 31, 32, 81, 75, 231201, 1135970>>,
       <<30, 39, 0, 50, 70, 71, 120, 41, 231161, 1136016>>,
       <<80, 11, 50, 0, 20, 21, 70, 85, 231212, 1135957>>,
       <<100, 31, 70, 20, 0, 1, 50, 104, 231232, 1135933>>,
       <<101, 32, 71, 21, 1, 0, 49, 105, 231232, 1135932>>,
       <<150, 81, 120, 70, 50, 49, 0, 153, 231281, 1135874>>,
       <<29, 75, 41, 85, 104, 105, 153, 0, 231131, 1136024>>,
       <<231131, 231201, 231161, 231212, 231232, 231232, 231281, 231131, 0, 1265050>>,
       <<1136051, 1136079, 1136063, 1136083, 1136091, 1136092, 1136112, 1136024, 1063177, 0>> >>

FirstLatitudeHundredths(lat, lng, plat, plng) ==
    FirstLatitudeTable[CoordinateIndex(lat, lng)][CoordinateIndex(plat, plng)]

\* R * c of the haversine formula, then Math.round(distance * 100): row i,
\* column j is the value the route's expression yields in IEEE double
\* arithmetic with (lat, lng) = Coordinates[i] and the property at
\* Coordinates[j], each ordered pair computed on its own (e.g. Origin1 to
\* PtEdge is 1.0019 miles, 100).
HaversineTable ==
    << <<0, 69, 30, 80, 100, 101, 150, 29, 231131, 1243757>>,
       <<69, 0, 39, 11, 31, 32, 81, 75, 231201, 1243687>>,
       <<30, 39, 0, 50, 70, 71, 120, 41, 231161, 1243727>>,
       <<80, 11, 50, 0, 20, 21, 70, 85, 231212, 1243676>>,
       <<100, 31, 70, 20, 0, 1, 50, 104, 231232, 1243656>>,
       <<101, 32, 71, 21, 1, 0, 49, 105, 231232, 1243656>>,
       <<150, 81, 120, 70, 50, 49, 0, 153, 231281, 1243607>>,
       <<29, 75, 41, 85, 104, 105, 153, 0, 231131, 1243728>>,
       <<231131, 231201, 231161, 231212, 231232, 231232, 231281, 231131, 0, 1012625>>,
       <<1243757, 1243687, 1243727, 1243676, 1243656, 1243656, 1243607, 1243728, 1012625, 0>> >>

HaversineHundredths(lat, lng, plat, plng) ==
    HaversineTable[CoordinateIndex(lat, lng)][CoordinateIndex(plat, plng)]

----------------------------------------------------------------------------
(* The import (POST): the parsed CSV, branch normalisation, geocoding.     *)

\* const validBranches
validBranches == {"phx-sw", "phx-se", "phx-n", "lv-main"}

\* const branchMap, with the `|| ''` of normalizeBranch for a missing key
branchMap(key) ==
    CASE key = "phx - southeast" -> "phx-se"
      [] key = "phx - southwest" -> "phx-sw"
      [] key = "phx - north" -> "phx-n"
      [] key = "las vegas" -> "lv-main"
      [] key = "lv" -> "lv-main"
      [] key = "phx-se" -> "phx-se"
      [] key = "phx-sw" -> "phx-sw"
      [] key = "phx-n" -> "phx-n"
      [] key = "lv-main" -> "lv-main"
      [] OTHER -> ""

normalizeBranch(branch) ==
    IF branch = "" THEN "" ELSE branchMap(Trim(ToLowerCase(branch)))

\* row.a || row.b || dflt on a parsed CSV row (a function from header to text)
Field(row, a, b, dflt) ==
    IF a \in DOMAIN row /\ row[a] # "" THEN row[a]
    ELSE IF b \in DOMAIN row /\ row[b] # "" THEN row[b]
    ELSE dflt

RowAddress(row) == Field(row, "address", "property_address", "")
RowBranch(row) == Field(row, "branch", "service_branch", "")
\* row.name || row.property_name || row.job_name || 'Unnamed Property'
RowName(row) ==
    Field(row, "name", "property_name", Field(row, "job_name", "job_name", "Unnamed Property"))

\* The validRows filter without its test of the branch.
IsValidRowAnyBranch(row) == Trim(RowAddress(row)) # ""

\* The filter of validRows; invalidRows is its complement.
IsValidRow(row) ==
    /\ Trim(RowAddress(row)) # ""
    /\ normalizeBranch(RowBranch(row)) \in validBranches

validRowsOf(rows) == SelectSeq(rows, IsValidRow)

\* An invalidRows filter that looks at the address only.
NotValidRowEmptyAddress(row) == Trim(RowAddress(row)) = ""

\* The filter of invalidRows.
NotValidRow(row) ==
    \/ Trim(RowAddress(row)) = ""
    \/ normalizeBranch(RowBranch(row)) \notin validBranches

invalidRowsOf(rows) == SelectSeq(rows, NotValidRow)

\* The required-column check on Object.keys(rows[0] || {}).
HasRequiredColumns(rows) ==
    LET headers == IF Len(rows) > 0 THEN DOMAIN rows[1] ELSE {}
    IN  /\ headers \cap {"name", "job_name", "property_name"} # {}
        /\ headers \cap {"address", "property_address"} # {}
        /\ headers \cap {"branch", "service_branch"} # {}

\* The geocoding service: the addresses it resolves, and to what.
GeocodeFound(address) ==
    address \in {"10 Zero St", "20 A St", "30 B St", "40 Edge Rd",
                 "50 Out Rd", "60 Mid Ave", "70 East Blvd"}

geocodeAddress(address) ==
    CASE address = "10 Zero St" -> Pt0
      [] address = "20 A St" -> PtA
      [] address = "30 B St" -> PtB
      [] address = "40 Edge Rd" -> PtEdge
      [] address = "50 Out Rd" -> PtOut
      [] address = "60 Mid Ave" -> PtMid
      [] address = "70 East Blvd" -> PtEast

\* The loop over validRows: failedProperties and processedProperties.
failedPropertiesOf(valid) ==
    LET NotFound(row) == ~GeocodeFound(RowAddress(row))
    IN  SelectSeq(valid, NotFound)

processedPropertiesOf(valid) ==
    LET Found(row) == GeocodeFound(RowAddress(row))
        found == SelectSeq(valid, Found)
    IN  [i \in 1..Len(found) |->
            [name |-> RowName(found[i]),
             address |-> RowAddress(found[i]),
             lat |-> geocodeAddress(RowAddress(found[i])).lat,
             lng |-> geocodeAddress(RowAddress(found[i])).lng,
             branch |-> normalizeBranch(RowBranch(found[i])),
             is_active |-> TRUE]]

\* const batchSize
batchSize == 100

\* insert(batch): the database gives each new row an id unique in the table.
InsertRows(tbl, batch) ==
    tbl \o [i \in 1..Len(batch) |->
              [id |-> Len(tbl) + i,
               name |-> batch[i].name,
               address |-> batch[i].address,
               lat |-> batch[i].lat,
               lng |-> batch[i].lng,
               branch |-> batch[i].branch,
               is_active |-> batch[i].is_active]]

----------------------------------------------------------------------------
(* The files offered for import.                                           *)

SheetPattern ==
    << [name |-> "Alpha",   address |-> "30 B St",      branch |-> "phx-sw"],
       [name |-> "Bravo",   address |-> "10 Zero St",   branch |-> "Phx - SouthEast"],
       [name |-> "Charlie", address |-> "20 A St",      branch |-> "Phx - SouthWest"],
       [name |-> "",        address |-> "40 Edge Rd",   branch |-> "PHX-SW"],
       [name |-> "Echo",    address |-> "50 Out Rd",    branch |-> "phx-sw"],
       [name |-> "Foxtrot", address |-> "10 Zero St",   branch |-> " Phx-SW "],
       [name |-> "Golf",    address |-> "10 Zero St",   branch |-> "Tucson"],
       [name |-> "Hotel",   address |-> "nowhere",      branch |-> "phx-sw"],
       [name |-> "India",   address |-> "20 A St",      branch |-> "phx-sw"],
       [name |-> "Juliet",  address |-> " ",            branch |-> "phx-sw"],
       [name |-> "Kilo",    address |-> "70 East Blvd", branch |-> "phx-sw"],
       [name |-> "Lima",    address |-> "60 Mid Ave",   branch |-> "phx-sw"] >>

\* A sheet of n data rows: the pattern, repeated.
Sheet(n) == [i \in 1..n |-> SheetPattern[((i - 1) % Len(SheetPattern)) + 1]]

\* A sheet with the alternative column names.
AltSheet ==
    << [job_name |-> "Mike", property_address |-> "20 A St", service_branch |-> "lv"],
       [job_name |-> "November", property_address |-> "nowhere", service_branch |-> "Phx - SouthWest"] >>

\* A sheet none of whose rows is valid, and one without a branch column.
InvalidSheet == << SheetPattern[7], SheetPattern[10] >>
NoBranchSheet == << [name |-> "Oscar", address |-> "20 A St"] >>

\* An upload: whether the form holds a file, Papa.parse's errors and rows.
Upload(present, errors, rows) ==
    [present |-> present, errors |-> errors, rows |-> rows]

Uploads ==
    {Upload(FALSE, 0, <<>>), Upload(TRUE, 1, <<>>)}
    \cup {Upload(TRUE, 0, rows) : rows \in {AltSheet, InvalidSheet, NoBranchSheet}}
    \cup {Upload(TRUE, 0, Sheet(n)) : n \in 0..MaxRows}

----------------------------------------------------------------------------
(* The proximity query (PUT).                                              *)

\* The destructuring default `radiusMiles = 1`, in hundredths of a mile.
DefaultRadiusMiles == 100

radiusMilesOf(body) ==
    IF "radiusMiles" \in DOMAIN body THEN body.radiusMiles ELSE DefaultRadiusMiles

\* !lat || !lng || !branch
MissingParameters(body) == body.lat = 0 \/ body.lng = 0 \/ body.branch = ""

\* String(branch).toLowerCase()
branchStrOf(body) == ToLowerCase(body.branch)

\* The select without its two eq filters.
SelectAll(tbl, branchStr) == {tbl}

\* A select that answers in heap order or in the opposite order.
SelectEitherOrder(tbl, branchStr) ==
    LET Match(row) == row.is_active = TRUE /\ row.branch = branchStr
        rows == SelectSeq(tbl, Match)
    IN  {rows, [i \in 1..Len(rows) |-> rows[Len(rows) + 1 - i]]}

\* select('*').eq('is_active', true).eq('branch', branchStr): the answers the
\* database may give, here the matching rows in heap order.
SelectActiveByBranch(tbl, branchStr) ==
    LET Match(row) == row.is_active = TRUE /\ row.branch = branchStr
    IN  {SelectSeq(tbl, Match)}

\* The map step: each property with its rounded distance from (lat, lng).
WithDistance(properties, lat, lng) ==
    [i \in 1..Len(properties) |->
        [id |-> properties[i].id,
         name |-> properties[i].name,
         address |-> properties[i].address,
         lat |-> properties[i].lat,
         lng |-> properties[i].lng,
         branch |-> properties[i].branch,
         is_active |-> properties[i].is_active,
         distance |-> HaversineHundredths(lat, lng, properties[i].lat, properties[i].lng)]]

\* The radius filter with < for <=.
WithinRadiusExclusive(ps, radiusMiles) ==
    LET Near(p) == p.distance < radiusMiles
    IN  SelectSeq(ps, Near)

\* .filter(p => p.distance <= radiusMiles)
WithinRadius(ps, radiusMiles) ==
    LET Near(p) == p.distance <= radiusMiles
    IN  SelectSeq(ps, Near)

\* .sort((a, b) => a.distance - b.distance): Array.prototype.sort is stable,
\* so an element goes after every element whose distance is not greater.
\* An insertion that takes a second element of the same distance for a
\* duplicate and leaves it out.
RECURSIVE InsertDistinctDistance(_, _)
InsertDistinctDistance(sorted, p) ==
    IF sorted = <<>> THEN <<p>>
    ELSE IF Head(sorted).distance = p.distance THEN sorted
    ELSE IF Head(sorted).distance < p.distance
         THEN <<Head(sorted)>> \o InsertDistinctDistance(Tail(sorted), p)
         ELSE <<p>> \o sorted

RECURSIVE InsertByDistance(_, _)
InsertByDistance(sorted, p) ==
    IF sorted = <<>> THEN <<p>>
    ELSE IF Head(sorted).distance <= p.distance
         THEN <<Head(sorted)>> \o InsertByDistance(Tail(sorted), p)
         ELSE <<p>> \o sorted

\* The chain without its sort.
Unsorted(ps) == ps

RECURSIVE SortByDistance(_)
SortByDistance(ps) ==
    IF ps = <<>> THEN <<>>
    ELSE InsertByDistance(SortByDistance(SubSeq(ps, 1, Len(ps) - 1)), ps[Len(ps)])

\* A number of hundredths as the template literal prints it: 100 is "1",
\* 50 is "0.5", 125 is "1.25".
MilesText(h) ==
    LET whole == h \div 100
        frac == h % 100
    IN  IF frac = 0 THEN ToString(whole)
        ELSE IF frac % 10 = 0 THEN ToString(whole) \o "." \o ToString(frac \div 10)
        ELSE IF frac < 10 THEN ToString(whole) \o ".0" \o ToString(frac)
        ELSE ToString(whole) \o "." \o ToString(frac)

\* The suffix with the plural chosen by >= 1.
WithinTextPlural(radiusMiles) ==
    " within " \o MilesText(radiusMiles) \o " mile"
        \o (IF radiusMiles >= 100 THEN "s" ELSE "")

\* `within ${radiusMiles} mile${radiusMiles > 1 ? 's' : ''}`
WithinText(radiusMiles) ==
    " within " \o MilesText(radiusMiles) \o " mile"
        \o (IF radiusMiles > 100 THEN "s" ELSE "")

\* The tier chain with every >= written as >.
proximityFactorStrict(count) ==
    IF count > 10 THEN 25
    ELSE IF count > 5 THEN 50
    ELSE IF count > 3 THEN 70
    ELSE IF count > 1 THEN 85
    ELSE 100

\* The tier chain with the factors of the two middle tiers exchanged.
proximityFactorSwapped(count) ==
    IF count >= 10 THEN 25
    ELSE IF count >= 5 THEN 70
    ELSE IF count >= 3 THEN 50
    ELSE IF count >= 1 THEN 85
    ELSE 100

\* let proximityFactor ... if (count >= 10) ... else if (count >= 1)
proximityFactorOf(count) ==
    IF count >= 10 THEN 25
    ELSE IF count >= 5 THEN 50
    ELSE IF count >= 3 THEN 70
    ELSE IF count >= 1 THEN 85
    ELSE 100

\* let description ... in the same chain
descriptionOf(count, radiusMiles) ==
    IF count >= 10
    THEN "Dense route - " \o ToString(count) \o " properties" \o WithinText(radiusMiles)
    ELSE IF count >= 5
    THEN "Good route density - " \o ToString(count) \o " properties" \o WithinText(radiusMiles)
    ELSE IF count >= 3
    THEN "Moderate route - " \o ToString(count) \o " properties" \o WithinText(radiusMiles)
    ELSE IF count >= 1
    THEN "Light route - " \o ToString(count) \o " propert"
             \o (IF count = 1 THEN "y" ELSE "ies") \o WithinText(radiusMiles)
    ELSE "Isolated property"

\* nearbyProperties: map, filter, sort.
nearbyPropertiesOf(properties, lat, lng, radiusMiles) ==
    SortByDistance(WithinRadius(WithDistance(properties, lat, lng), radiusMiles))

\* const count = nearbyProperties.length
countOf(nearbyProperties) == Len(nearbyProperties)

\* The JSON of a successful answer.
ProximityJson(properties, body) ==
    LET nearbyProperties ==
            nearbyPropertiesOf(properties, body.lat, body.lng, radiusMilesOf(body))
        count == countOf(nearbyProperties)
    IN  [nearbyProperties |-> nearbyProperties,
         proximityFactor |-> proximityFactorOf(count),
         description |-> descriptionOf(count, radiusMilesOf(body)),
         count |-> count]

----------------------------------------------------------------------------
(* The state machine of the active-properties route.                       *)

\* A table as it may stand before the first import: rows of the Row type,
\* two of them deactivated.
SeedTable ==
    << [id |-> 1, name |-> "Retired", address |-> "10 Zero St",
        lat |-> Pt0.lat, lng |-> Pt0.lng, branch |-> "phx-sw", is_active |-> FALSE],
       [id |-> 2, name |-> "Quebec", address |-> "20 A St",
        lat |-> PtA.lat, lng |-> PtA.lng, branch |-> "phx-sw", is_active |-> TRUE],
       [id |-> 3, name |-> "Romeo", address |-> "10 Zero St",
        lat |-> Pt0.lat, lng |-> Pt0.lng, branch |-> "phx-se", is_active |-> TRUE],
       [id |-> 4, name |-> "Sierra", address |-> "30 B St",
        lat |-> PtB.lat, lng |-> PtB.lng, branch |-> "phx-sw", is_active |-> TRUE],
       [id |-> 5, name |-> "Tango", address |-> "20 A St",
        lat |-> PtA.lat, lng |-> PtA.lng, branch |-> "phx-se", is_active |-> FALSE] >>

Idle == [pc |-> "idle"]
NoResponse == [method |-> "none", status |-> 0]

\* A request body of the proximity query; radiusMiles may be left out.
Body(origin, branch) == [lat |-> origin.lat, lng |-> origin.lng, branch |-> branch]
BodyWithRadius(origin, branch, radiusMiles) ==
    [lat |-> origin.lat, lng |-> origin.lng, branch |-> branch, radiusMiles |-> radiusMiles]

\* The bodies that are asked again and compared.
ProbeBodies ==
    {Body(Origin1, "phx-sw"), BodyWithRadius(Origin2, "phx-sw", 50)}

Bodies ==
    ProbeBodies
    \cup {BodyWithRadius(Origin1, "phx-sw", 200), BodyWithRadius(Origin1, "phx-sw", 50),
          Body(Origin1, "PHX-SW"), Body(Origin1, "phx-se"), Body(Origin2, "phx-sw"),
          BodyWithRadius(Origin2, "phx-se", 200), Body(Origin1, ""),
          Body(OriginEquator, "phx-sw"),
          BodyWithRadius(Origin1, "phx-sw", 0), BodyWithRadius(Origin1, "phx-sw", -100),
          Body(Origin1, "tucson")}

\* PropertyCalculator as mounted: no drive time, no proximity data, an empty
\* list of active properties, calculateDriveTime not running.
MountedUI ==
    [pc |-> "idle",
     address |-> "",
     selectedBranchId |-> "",
     totalActiveProperties |-> 0,
     location |-> <<>>,
     driveTimeHours |-> 0,
     proximityAsked |-> FALSE,
     proximityResult |-> <<>>,
     calculatedDriveTime |-> <<>>,
     proximityData |-> <<>>,
     distanceError |-> "",
     totalCount |-> 0]

Init ==
    /\ table \in {<<>>, SeedTable}
    /\ apiKey \in BOOLEAN
    /\ imp = Idle
    /\ last = NoResponse
    /\ mem = NoResponse
    /\ ui = MountedUI

\* The returns of POST before anything is written: 0 when there is none.
EarlyStatus(upload) ==
    IF ~upload.present THEN 400
    ELSE IF upload.errors > 0 THEN 400
    ELSE IF ~HasRequiredColumns(upload.rows) THEN 400
    ELSE IF Len(validRowsOf(upload.rows)) = 0 THEN 400
    ELSE 0

EarlyError(upload) ==
    IF ~upload.present THEN "No file provided"
    ELSE IF upload.errors > 0 THEN "Failed to parse CSV"
    ELSE IF ~HasRequiredColumns(upload.rows) THEN "Missing required columns"
    ELSE "No valid properties found"

PostError(status, error) ==
    [method |-> "POST", status |-> status, json |-> [error |-> error]]

\* POST: the table cannot be read (testError).
ImportTableError ==
    /\ imp = Idle
    /\ last' = PostError(500, "Cannot access active_properties table")
    /\ UNCHANGED <<table, apiKey, imp, mem, ui>>

\* POST: no file, a CSV that does not parse, missing columns, no valid row.
ImportRefused ==
    /\ imp = Idle
    /\ \E upload \in Uploads :
        /\ EarlyStatus(upload) # 0
        /\ last' = PostError(EarlyStatus(upload), EarlyError(upload))
    /\ UNCHANGED <<table, apiKey, imp, mem, ui>>

\* An import that accepts the upload and keeps the existing rows.
ImportWithoutClear ==
    /\ imp = Idle
    /\ \E upload \in Uploads :
        /\ EarlyStatus(upload) = 0
        /\ imp' = [pc |-> "cleared", rows |-> upload.rows, inserted |-> 0,
                   before |-> table]
    /\ UNCHANGED <<table, apiKey, last, mem, ui>>

\* POST: the upload is accepted and the existing rows are deleted; the
\* request remembers, for comparison only, the rows it deleted.
ImportClear ==
    /\ imp = Idle
    /\ \E upload \in Uploads :
        /\ EarlyStatus(upload) = 0
        /\ imp' = [pc |-> "cleared", rows |-> upload.rows, inserted |-> 0,
                   before |-> table]
    /\ table' = <<>>
    /\ UNCHANGED <<apiKey, last, mem, ui>>

\* POST: the delete fails (deleteError).
ImportClearFails ==
    /\ imp = Idle
    /\ \E upload \in Uploads : EarlyStatus(upload) = 0
    /\ last' = PostError(500, "Failed to clear existing properties")
    /\ UNCHANGED <<table, apiKey, imp, mem, ui>>

\* POST: after the delete, the Google Maps API key is found missing.
ImportNoKey ==
    /\ imp.pc = "cleared"
    /\ ~apiKey
    /\ last' = PostError(500, "Google Maps API key is not configured")
    /\ imp' = Idle
    /\ UNCHANGED <<table, apiKey, mem, ui>>

\* The success answer of POST.
ImportSuccess(rows) ==
    [method |-> "POST",
     rows |-> rows,
     status |-> 200,
     json |-> [success |-> TRUE,
               imported |-> Len(processedPropertiesOf(validRowsOf(rows))),
               failed |-> Len(failedPropertiesOf(validRowsOf(rows))),
               skipped |-> Len(invalidRowsOf(rows)),
               total |-> Len(rows)]]

\* POST: the addresses are geocoded and the next batch is inserted; after
\* the last batch (or with nothing to insert) the request answers.
ImportInsert ==
    /\ imp.pc = "cleared"
    /\ apiKey
    /\ LET processed == processedPropertiesOf(validRowsOf(imp.rows))
           upto == IF imp.inserted + batchSize < Len(processed)
                   THEN imp.inserted + batchSize ELSE Len(processed)
           batch == SubSeq(processed, imp.inserted + 1, upto)
       IN  /\ table' = InsertRows(table, batch)
           /\ IF upto < Len(processed)
              THEN /\ imp' = [imp EXCEPT !.inserted = upto]
                   /\ UNCHANGED last
              ELSE /\ imp' = Idle
                   /\ last' = ImportSuccess(imp.rows)
    /\ UNCHANGED <<apiKey, mem, ui>>

\* POST: an insert fails (insertError); the batches before it stay.
ImportInsertFails ==
    /\ imp.pc = "cleared"
    /\ apiKey
    /\ Len(processedPropertiesOf(validRowsOf(imp.rows))) > 0
    /\ last' = PostError(500, "Failed to save properties")
    /\ imp' = Idle
    /\ UNCHANGED <<table, apiKey, mem, ui>>

\* An answer of PUT that reports an empty selection as an error.
PutAnswerEmptyIsError(tbl, body, fetched, properties) ==
    IF MissingParameters(body)
    THEN [method |-> "PUT", body |-> body, table |-> tbl, status |-> 400,
          json |-> [error |-> "Missing required parameters"]]
    ELSE IF ~fetched
    THEN [method |-> "PUT", body |-> body, table |-> tbl, status |-> 500,
          json |-> [error |-> "Failed to fetch properties"]]
    ELSE IF nearbyPropertiesOf(properties, body.lat, body.lng, radiusMilesOf(body)) = <<>>
    THEN [method |-> "PUT", body |-> body, table |-> tbl, status |-> 404,
          json |-> [error |-> "No properties found"]]
    ELSE [method |-> "PUT", body |-> body, table |-> tbl, status |-> 200,
          json |-> ProximityJson(properties, body)]

\* The answer of PUT to `body` with the table as `tbl`; `properties` is the
\* database's answer, `fetched` whether it came without an error.
PutAnswer(tbl, body, fetched, properties) ==
    IF MissingParameters(body)
    THEN [method |-> "PUT", body |-> body, table |-> tbl, status |-> 400,
          json |-> [error |-> "Missing required parameters"]]
    ELSE IF ~fetched
    THEN [method |-> "PUT", body |-> body, table |-> tbl, status |-> 500,
          json |-> [error |-> "Failed to fetch properties"]]
    ELSE [method |-> "PUT", body |-> body, table |-> tbl, status |-> 200,
          json |-> ProximityJson(properties, body)]

\* A proximity query that retires the rows it was given.
ProximityQueryRetiring ==
    /\ \E body \in Bodies, fetched \in BOOLEAN :
         \E properties \in SelectActiveByBranch(table, branchStrOf(body)) :
            /\ last' = PutAnswer(table, body, fetched, properties)
            /\ table' = [j \in 1..Len(table) |->
                            IF \E i \in 1..Len(properties) : properties[i].id = table[j].id
                            THEN [table[j] EXCEPT !.is_active = FALSE]
                            ELSE table[j]]
    /\ UNCHANGED <<apiKey, imp, mem, ui>>

\* PUT: one proximity query.
ProximityQuery ==
    /\ \E body \in Bodies, fetched \in BOOLEAN :
         \E properties \in SelectActiveByBranch(table, branchStrOf(body)) :
            last' = PutAnswer(table, body, fetched, properties)
    /\ UNCHANGED <<table, apiKey, imp, mem, ui>>

Import ==
    \/ ImportTableError
    \/ ImportRefused
    \/ ImportClear
    \/ ImportClearFails
    \/ ImportNoKey
    \/ ImportInsert
    \/ ImportInsertFails

Next ==
    \/ Import
    \/ ProximityQuery

Spec == Init /\ [][Next]_vars

----------------------------------------------------------------------------
(* Proximity queries asked again: an earlier exchange is kept in `mem`.    *)

\* PUT: one proximity query; the exchange before it may be kept for later.
ProximityReplay ==
    /\ \E body \in ProbeBodies, fetched \in BOOLEAN, keep \in BOOLEAN :
         \E properties \in SelectActiveByBranch(table, branchStrOf(body)) :
            /\ last' = PutAnswer(table, body, fetched, properties)
            /\ mem' = IF keep /\ last.method = "PUT" /\ last.status = 200
                      THEN last ELSE mem
    /\ UNCHANGED <<table, apiKey, imp, ui>>

NextReplay ==
    \/ Import
    \/ ProximityReplay

SpecReplay == Init /\ [][NextReplay]_vars

----------------------------------------------------------------------------
(* PropertyCalculator: calculateDriveTime and the hook useActiveProperties. *)

\* The branches of BRANCHES (PHX and LV).
BranchIds == {"phx-sw", "phx-se", "phx-n", "lv-main"}

\* The address typed and the branch selected when calculateDriveTime runs.
Addresses == {"1 Origin Way", "0 Equator Rd", "nowhere", ""}
SelectedBranchIds == {"phx-sw", "phx-n", "old-branch"}

\* action 'geocode' of /api/maps: the addresses Google resolves, and to what.
mapsGeocodeFound(address) ==
    address \in {"1 Origin Way", "2 Origin Way", "0 Equator Rd"} \/ GeocodeFound(address)

mapsGeocodeLocation(address) ==
    CASE address = "1 Origin Way" -> Origin1
      [] address = "2 Origin Way" -> Origin2
      [] address = "0 Equator Rd" -> OriginEquator
      [] OTHER -> geocodeAddress(address)

\* element.duration.value of the distance matrix, in seconds, as the response
\* carries it: the number is not checked anywhere, a negative one included.
Durations == {0, 360, 3300, 5400, 36000, -3600}

\* durationHours = value / 3600, then Math.round(durationHours * 10) / 10:
\* the drive time in tenths of an hour.
driveTimeHoursOf(seconds) == (seconds + 180) \div 360

\* The pairs (drive time in tenths, factor in hundredths) whose product is
\* an exact half of a tenth but, computed in doubles, falls just below it:
\* Math.round then rounds down (1.5 * 0.7 * 10 is 10.499999999999998).
ProductBelowHalf ==
    {<<15, 70>>, <<35, 70>>, <<85, 70>>, <<115, 70>>, <<130, 85>>, <<145, 70>>}

\* The product cut to tenths of an hour.
adjustedTimeTruncated(driveTimeHours, proximityFactor) ==
    (driveTimeHours * proximityFactor) \div 100

\* The drive time divided by the factor.
adjustedTimeDivided(driveTimeHours, proximityFactor) ==
    (driveTimeHours * 100 + proximityFactor \div 2) \div proximityFactor

\* Math.round(driveTimeHours * proximityResult.proximityFactor * 10) / 10,
\* in tenths of an hour, for drive times up to 15.0 hours.
adjustedTimeOf(driveTimeHours, proximityFactor) ==
    IF <<driveTimeHours, proximityFactor>> \in ProductBelowHalf
    THEN (driveTimeHours * proximityFactor) \div 100
    ELSE (driveTimeHours * proximityFactor + 50) \div 100

\* GET: the active rows.
ActiveRows(tbl) ==
    LET Active(row) == row.is_active = TRUE
    IN  SelectSeq(tbl, Active)

\* What an import of `rows` into an empty table leaves.
Imported(rows) == InsertRows(<<>>, processedPropertiesOf(validRowsOf(rows)))

\* The tables PropertyCalculator is run against.
StoredTables ==
    {<<>>, SeedTable} \cup {Imported(Sheet(n)) : n \in {1, 4, 9, MaxRows}}

InitUI ==
    /\ table \in StoredTables
    /\ apiKey = TRUE
    /\ imp = Idle
    /\ last = NoResponse
    /\ mem = NoResponse
    /\ ui = MountedUI

\* fetchActiveProperties: the list is replaced when the response is ok.
fetchActiveProperties ==
    /\ \E ok \in BOOLEAN :
         ui' = IF ok
               THEN [ui EXCEPT !.totalCount = Len(ActiveRows(table))]
               ELSE ui
    /\ UNCHANGED <<table, apiKey, imp, last, mem>>

\* calculateDriveTime up to the geocode request: it returns at once without
\* an address or a branch of BRANCHES. totalActiveProperties is the value
\* of the render the function belongs to.
calculateDriveTime ==
    /\ ui.pc = "idle"
    /\ \E address \in Addresses, selectedBranchId \in SelectedBranchIds :
         ui' = IF address = "" \/ selectedBranchId = "" \/ selectedBranchId \notin BranchIds
               THEN ui
               ELSE [ui EXCEPT !.pc = "geocode",
                               !.address = address,
                               !.selectedBranchId = selectedBranchId,
                               !.totalActiveProperties = ui.totalCount,
                               !.location = <<>>,
                               !.driveTimeHours = 0,
                               !.proximityAsked = FALSE,
                               !.proximityResult = <<>>,
                               !.distanceError = ""]
    /\ UNCHANGED <<table, apiKey, imp, last, mem>>

\* calculateDriveTime, the geocode result: an address not found ends it.
geocodeResult ==
    /\ ui.pc = "geocode"
    /\ ui' = IF mapsGeocodeFound(ui.address)
             THEN [ui EXCEPT !.pc = "distance",
                             !.location = <<mapsGeocodeLocation(ui.address)>>]
             ELSE [ui EXCEPT !.pc = "idle",
                             !.distanceError = "Could not find property address"]
    /\ UNCHANGED <<table, apiKey, imp, last, mem>>

\* calculateDriveTime, the distance result: the drive time is rounded and
\* set; the proximity is asked for only with active properties in the list.
distanceResult ==
    /\ ui.pc = "distance"
    /\ \E success \in BOOLEAN, seconds \in Durations :
         ui' = IF success
               THEN [ui EXCEPT !.pc = IF ui.totalActiveProperties > 0
                                      THEN "proximity" ELSE "idle",
                               !.driveTimeHours = driveTimeHoursOf(seconds),
                               !.calculatedDriveTime = <<driveTimeHoursOf(seconds)>>]
               ELSE [ui EXCEPT !.pc = "idle",
                               !.distanceError = "Could not calculate distance"]
    /\ UNCHANGED <<table, apiKey, imp, last, mem>>

\* The request of calculateProximity(lat, lng, selectedBranchId, 1).
ProximityBody(u) ==
    BodyWithRadius(u.location[1], u.selectedBranchId, 100)

\* setProximityData of a proximity result.
WithProximityData(u, result) ==
    [u EXCEPT !.pc = "idle",
              !.proximityAsked = TRUE,
              !.proximityResult = <<result>>,
              !.proximityData =
                  <<[nearbyProperties |-> result.nearbyProperties,
                     proximityFactor |-> result.proximityFactor,
                     description |-> result.description,
                     adjustedDriveTime |->
                         adjustedTimeOf(u.driveTimeHours, result.proximityFactor)]>>]

\* calculateDriveTime, the proximity result: calculateProximity answers null
\* without sending when a parameter is missing and when the response is not
\* ok; with a result the adjusted time is computed and the data set.
proximityResult ==
    /\ ui.pc = "proximity"
    /\ IF MissingParameters(ProximityBody(ui))
       THEN /\ ui' = [ui EXCEPT !.pc = "idle", !.proximityAsked = TRUE]
            /\ UNCHANGED last
       ELSE \E fetched \in BOOLEAN :
              \E properties \in SelectActiveByBranch(table, branchStrOf(ProximityBody(ui))) :
                /\ last' = PutAnswer(table, ProximityBody(ui), fetched, properties)
                /\ ui' = IF last'.status = 200
                         THEN WithProximityData(ui, last'.json)
                         ELSE [ui EXCEPT !.pc = "idle", !.proximityAsked = TRUE]
    /\ UNCHANGED <<table, apiKey, imp, mem>>

\* calculatedDriveTime={proximityData?.adjustedDriveTime || calculatedDriveTime}:
\* the drive time handed to RouteMap and MaintenanceCalculator; an adjusted
\* time of 0 is falsy. <<>> stands for null.
calculatedDriveTimeProp(u) ==
    IF u.proximityData # <<>> /\ u.proximityData[1].adjustedDriveTime # 0
    THEN <<u.proximityData[1].adjustedDriveTime>>
    ELSE u.calculatedDriveTime

NextUI ==
    \/ fetchActiveProperties
    \/ calculateDriveTime
    \/ geocodeResult
    \/ distanceResult
    \/ proximityResult

SpecUI == InitUI /\ [][NextUI]_vars

----------------------------------------------------------------------------
(* Properties of the proximity query, read off the last exchange.          *)

\* The last response is the answer (status 200) to a proximity query.
IsAnswer == last.method = "PUT" /\ last.status = 200

\* The radius the query asks for: 1 mile unless the body gives one.
QueryRadius(body) == IF "radiusMiles" \in DOMAIN body THEN body.radiusMiles ELSE 100

\* The distance of a stored row from the origin of the query.
DistanceFrom(body, row) == HaversineHundredths(body.lat, body.lng, row.lat, row.lng)

\* The positions of the nearby list that hold the stored row.
PositionsOf(nearby, row) == {i \in 1..Len(nearby) : nearby[i].id = row.id}

\* C1: the discount factor of every answer is fixed by the number N of
\* nearby properties returned: 0.25 for N >= 10, 0.50 for 5..9, 0.70 for
\* 3..4, 0.85 for 1..2 and 1.00 for N = 0.
FactorByCount ==
    IsAnswer =>
        LET N == Len(last.json.nearbyProperties)
            f == last.json.proximityFactor
        IN  /\ N >= 10 => f = 25
            /\ (5 <= N /\ N <= 9) => f = 50
            /\ (3 <= N /\ N <= 4) => f = 70
            /\ (1 <= N /\ N <= 2) => f = 85
            /\ N = 0 => f = 100

\* An answer with exactly ten nearby properties and the factor 0.25.
FactorByCountWitness ==
    /\ IsAnswer
    /\ Len(last.json.nearbyProperties) = 10
    /\ last.json.proximityFactor = 25

NearbyIffWithinRadius ==
    IsAnswer =>
        \A j \in 1..Len(last.table) :
            (last.table[j].is_active = TRUE /\ last.table[j].branch = last.body.branch)
                => (PositionsOf(last.json.nearbyProperties, last.table[j]) # {}
                        <=> DistanceFrom(last.body, last.table[j]) <= QueryRadius(last.body))

\* An answer that holds a row at exactly the radius while the table holds a
\* row of the same branch one hundredth of a mile farther, which it leaves out.
NearbyIffWithinRadiusWitness ==
    /\ IsAnswer
    /\ \E i \in 1..Len(last.json.nearbyProperties) :
        last.json.nearbyProperties[i].distance = QueryRadius(last.body)
    /\ \E j \in 1..Len(last.table) :
        /\ last.table[j].is_active = TRUE
        /\ last.table[j].branch = last.body.branch
        /\ DistanceFrom(last.body, last.table[j]) = QueryRadius(last.body) + 1
        /\ PositionsOf(last.json.nearbyProperties, last.table[j]) = {}

\* C4: the nearby list is in ascending order of distance.
NearbySorted ==
    IsAnswer =>
        \A i \in 1..(Len(last.json.nearbyProperties) - 1) :
            last.json.nearbyProperties[i].distance
                <= last.json.nearbyProperties[i + 1].distance

\* An answer of three or more rows that the table holds in another order:
\* a row stored later comes earlier in the list, being strictly nearer.
NearbySortedWitness ==
    /\ IsAnswer
    /\ Len(last.json.nearbyProperties) >= 3
    /\ \E i, k \in 1..Len(last.json.nearbyProperties) :
        /\ i < k
        /\ last.json.nearbyProperties[i].id > last.json.nearbyProperties[k].id
        /\ last.json.nearbyProperties[i].distance < last.json.nearbyProperties[k].distance

\* The stored rows a query is about: active, of the branch the table is
\* asked for (the query's branch in lower case), within the radius.
Matching(tbl, body) ==
    {j \in 1..Len(tbl) :
        /\ tbl[j].is_active = TRUE
        /\ tbl[j].branch = ToLowerCase(body.branch)
        /\ DistanceFrom(body, tbl[j]) <= QueryRadius(body)}

\* C5: count is the length of the nearby list and the number of stored
\* active rows of the queried branch within the radius; each such row is in
\* the list exactly once, with its distance, and the list holds nothing else.
CountIsMatchingRows ==
    IsAnswer =>
        /\ last.json.count = Len(last.json.nearbyProperties)
        /\ last.json.count = Cardinality(Matching(last.table, last.body))
        /\ \A j \in Matching(last.table, last.body) :
            /\ Cardinality(PositionsOf(last.json.nearbyProperties, last.table[j])) = 1
            /\ \A i \in PositionsOf(last.json.nearbyProperties, last.table[j]) :
                last.json.nearbyProperties[i].distance = DistanceFrom(last.body, last.table[j])
        /\ \A i \in 1..Len(last.json.nearbyProperties) :
            \E j \in Matching(last.table, last.body) :
                last.json.nearbyProperties[i].id = last.table[j].id

\* An answer of four or more rows, two of them at the same distance, from a
\* table that also holds rows the query is not about.
CountIsMatchingRowsWitness ==
    /\ IsAnswer
    /\ last.json.count >= 4
    /\ last.json.count < Len(last.table)
    /\ \E i \in 1..(Len(last.json.nearbyProperties) - 1) :
        last.json.nearbyProperties[i].distance = last.json.nearbyProperties[i + 1].distance

\* The name of the tier of N nearby properties.
TierName(N) ==
    IF N >= 10 THEN "Dense route"
    ELSE IF N >= 5 THEN "Good route density"
    ELSE IF N >= 3 THEN "Moderate route"
    ELSE IF N >= 1 THEN "Light route"
    ELSE "Isolated property"

\* C6, as stated: the description of an answer is the name of the tier of N.
DescriptionIsTierName ==
    IsAnswer => last.json.description = TierName(Len(last.json.nearbyProperties))

\* C6, amended: the description is "Isolated property" for N = 0 and for
\* N >= 1 the name of the tier followed by " - N properties within R mile",
\* with "property" for N = 1 and "miles" for a radius above one mile.
DescriptionIsTierNameAndDetail ==
    IsAnswer =>
        LET N == Len(last.json.nearbyProperties)
            R == QueryRadius(last.body)
        IN  last.json.description =
                IF N = 0 THEN "Isolated property"
                ELSE TierName(N) \o " - " \o ToString(N)
                        \o (IF N = 1 THEN " property" ELSE " properties")
                        \o " within " \o MilesText(R)
                        \o (IF R > 100 THEN " miles" ELSE " mile")

\* The answer "Dense route - 12 properties within 2 miles".
DescriptionWitness ==
    /\ IsAnswer
    /\ Len(last.json.nearbyProperties) = 12
    /\ last.json.description = "Dense route - 12 properties within 2 miles"

----------------------------------------------------------------------------
(* Properties that compare two exchanges: `mem`, an earlier answer, and    *)
(* `last`, the latest one, with any number of requests between them.       *)

\* Both exchanges are answers (status 200) to the same request body.
SameQueryAnswered ==
    /\ mem.method = "PUT" /\ mem.status = 200
    /\ IsAnswer
    /\ mem.body = last.body

\* The stored rows a query is about, as a set of candidates.
NearSet(tbl, body) == {tbl[j] : j \in Matching(tbl, body)}

\* C7: for the same origin, branch and radius, when the active rows of the
\* branch within the radius in one table are a superset of those in another
\* table, the factor answered for the first is at most the factor answered
\* for the second.
TierMonotone ==
    SameQueryAnswered =>
        /\ NearSet(last.table, last.body) \subseteq NearSet(mem.table, mem.body)
                => mem.json.proximityFactor <= last.json.proximityFactor
        /\ NearSet(mem.table, mem.body) \subseteq NearSet(last.table, last.body)
                => last.json.proximityFactor <= mem.json.proximityFactor

\* Two answers to the same body from tables of which the later holds every
\* nearby row of the earlier and three or more besides: the factor fell
\* from 0.70 to 0.50.
TierMonotoneWitness ==
    /\ SameQueryAnswered
    /\ NearSet(mem.table, mem.body) \subseteq NearSet(last.table, last.body)
    /\ NearSet(mem.table, mem.body) # NearSet(last.table, last.body)
    /\ mem.json.proximityFactor = 70
    /\ last.json.proximityFactor = 50

\* The rows of a table, as a set.
RowsOf(tbl) == {tbl[j] : j \in 1..Len(tbl)}

----------------------------------------------------------------------------
(* Properties of the adjusted drive time, read off PropertyCalculator when *)
(* calculateDriveTime has returned after setting the proximity data.       *)

\* calculateDriveTime has returned and its proximity result was not null.
Adjusted == ui.pc = "idle" /\ ui.proximityResult # <<>>

\* The factor of the tier of N nearby properties, in hundredths.
TierFactor(N) ==
    IF N >= 10 THEN 25
    ELSE IF N >= 5 THEN 50
    ELSE IF N >= 3 THEN 70
    ELSE IF N >= 1 THEN 85
    ELSE 100

\* C8: the adjusted drive time is the isolated drive time multiplied by the
\* factor of the proximity result and rounded to one decimal place (a tenth
\* of an hour nearest to the product); for an isolated drive time of 10.0
\* hours it is 10.0, 8.5, 7.0, 5.0 and 2.5 for N = 0, 1-2, 3-4, 5-9, >= 10.
AdjustedIsRoundedProduct ==
    Adjusted =>
        LET adjusted == ui.proximityData[1].adjustedDriveTime
            baseline == ui.calculatedDriveTime[1]
            factor == ui.proximityResult[1].proximityFactor
            N == ui.proximityResult[1].count
        IN  /\ ui.calculatedDriveTime = <<ui.driveTimeHours>>
            /\ ui.proximityData[1].proximityFactor = factor
            /\ adjusted * 100 - baseline * factor \in -50..50
            /\ baseline = 100 => adjusted = TierFactor(N)

\* An isolated drive time of 10.0 hours with two nearby properties, at 0.3
\* and 0.8 miles: the adjusted drive time is 8.5 hours.
AdjustedIsRoundedProductWitness ==
    /\ Adjusted
    /\ ui.calculatedDriveTime = <<100>>
    /\ Len(ui.proximityData[1].nearbyProperties) = 2
    /\ ui.proximityData[1].nearbyProperties[1].distance = 30
    /\ ui.proximityData[1].nearbyProperties[2].distance = 80
    /\ ui.proximityData[1].adjustedDriveTime = 85

\* C9: the factor of a proximity result is above 0 and at most 1, and for
\* an isolated drive time of at least 0 the adjusted drive time is at least
\* 0 and at most the isolated drive time.
AdjustedWithinBaseline ==
    Adjusted =>
        LET adjusted == ui.proximityData[1].adjustedDriveTime
            baseline == ui.driveTimeHours
            factor == ui.proximityResult[1].proximityFactor
        IN  /\ ui.calculatedDriveTime = <<baseline>>
            /\ 0 < factor /\ factor <= 100
            /\ baseline >= 0 => (0 <= adjusted /\ adjusted <= baseline)

\* An isolated drive time of 1.5 hours adjusted by the factor 0.70 to 1.0
\* hour: above 0 and below the isolated drive time.
AdjustedWithinBaselineWitness ==
    /\ Adjusted
    /\ ui.driveTimeHours = 15
    /\ ui.proximityResult[1].proximityFactor = 70
    /\ ui.proximityData[1].adjustedDriveTime = 10

----------------------------------------------------------------------------
(* Properties of the stored rows across proximity queries and imports.     *)

\* A step in which the route answers a proximity query.
PutStep == last' # last /\ last'.method = "PUT"

\* C11: a proximity query, answered or failed, leaves the stored rows as
\* they were: the same rows with the same fields in the same places.
ProximityQueryKeepsTable == [][PutStep => table' = table]_vars

\* A query has been answered with nearby rows and the table still is the
\* table it was answered from.
ProximityQueryKeepsTableWitness ==
    /\ IsAnswer
    /\ Len(last.json.nearbyProperties) >= 2
    /\ table = last.table

\* C12: a query with a non-zero latitude and longitude and a non-empty branch
\* whose table holds no active row of the branch within the radius (an empty
\* table included) is answered, unless the table cannot be read, with count
\* 0, an empty nearby list, the factor 1.00 and "Isolated property".
EmptyIsIsolated ==
    (/\ last.method = "PUT"
     /\ last.body.lat # 0 /\ last.body.lng # 0 /\ last.body.branch # ""
     /\ Matching(last.table, last.body) = {})
        => IF last.status = 200
           THEN last.json = [nearbyProperties |-> <<>>,
                             proximityFactor |-> 100,
                             description |-> "Isolated property",
                             count |-> 0]
           ELSE last.status = 500 /\ last.json.error = "Failed to fetch properties"

\* The isolated answer from a table that holds active rows of the queried
\* branch, all of them beyond the radius.
EmptyIsIsolatedWitness ==
    /\ IsAnswer
    /\ last.json.count = 0
    /\ last.json.description = "Isolated property"
    /\ \E j \in 1..Len(last.table) :
        /\ last.table[j].is_active = TRUE
        /\ last.table[j].branch = last.body.branch
        /\ DistanceFrom(last.body, last.table[j]) > QueryRadius(last.body)

----------------------------------------------------------------------------
(* What the route does with arguments the specification calls invalid.     *)

\* C13, as stated: a query whose radius is zero or negative is answered
\* with the error status 400 and no proximity result.
NonPositiveRadiusRejected ==
    (last.method = "PUT" /\ QueryRadius(last.body) <= 0) => last.status = 400

\* C14, as stated: a query whose branch is empty or, in lower case, is not
\* one of the branch codes phx-sw, phx-se, phx-n and lv-main is answered
\* with the error status 400 and no tier.
UnknownBranchRejected ==
    (/\ last.method = "PUT"
     /\ last.body.lat # 0 /\ last.body.lng # 0
     /\ ToLowerCase(last.body.branch) \notin {"phx-sw", "phx-se", "phx-n", "lv-main"})
        => last.status = 400

\* A query with the radius 0 answered with a tier: one property at the
\* origin itself, the factor 0.85.
NonPositiveRadiusAnswered ==
    /\ IsAnswer
    /\ QueryRadius(last.body) = 0
    /\ last.json.count = 1
    /\ last.json.proximityFactor = 85
    /\ last.json.description = "Light route - 1 property within 0 mile"

\* A query for the branch "tucson" answered as an isolated property from a
\* table that holds active rows.
UnknownBranchAnswered ==
    /\ IsAnswer
    /\ last.body.branch = "tucson"
    /\ Len(last.table) > 0
    /\ last.json.proximityFactor = 100
    /\ last.json.description = "Isolated property"

\* C16, as stated: a query with a latitude in [-90, 90], a longitude in
\* [-180, 180], a non-empty branch and a radius above 0 is answered with a
\* proximity result, unless the table cannot be read.
ValidOriginAnswered ==
    (/\ last.method = "PUT"
     /\ -900000 <= last.body.lat /\ last.body.lat <= 900000
     /\ -1800000 <= last.body.lng /\ last.body.lng <= 1800000
     /\ last.body.branch # ""
     /\ QueryRadius(last.body) > 0)
        => IF last.status = 200
           THEN DOMAIN last.json = {"nearbyProperties", "proximityFactor", "description", "count"}
           ELSE last.status = 500 /\ last.json.error = "Failed to fetch properties"

\* A query from latitude 0 for the branch phx-sw refused with status 400.
EquatorOriginRefused ==
    /\ last.method = "PUT"
    /\ last.body.lat = 0
    /\ last.body.lng # 0
    /\ last.body.branch = "phx-sw"
    /\ last.status = 400
    /\ last.json.error = "Missing required parameters"

\* C15, as stated: no adjusted drive time is produced or stored for a
\* negative isolated drive time.
NegativeBaselineNotAdjusted == ~(Adjusted /\ ui.driveTimeHours < 0)

\* A distance result of -1.0 hour adjusted by the factor 0.85 and stored as
\* the adjusted drive time -0.8 hour.
NegativeBaselineAdjusted ==
    /\ Adjusted
    /\ ui.calculatedDriveTime = <<-10>>
    /\ ui.proximityResult[1].proximityFactor = 85
    /\ ui.proximityData # <<>>
    /\ ui.proximityData[1].adjustedDriveTime = -8
    /\ ui.distanceError = ""

----------------------------------------------------------------------------
(* Properties of the import (POST).                                        *)

\* The last response is the success answer of an import, and no other
\* import has begun since.
ImportDone == imp = Idle /\ last.method = "POST" /\ last.status = 200

\* The rows of a file that pass validation and whose address is geocoded.
StoredRowsOf(rows) ==
    LET Kept(row) ==
            /\ Trim(RowAddress(row)) # ""
            /\ normalizeBranch(RowBranch(row)) \in {"phx-sw", "phx-se", "phx-n", "lv-main"}
            /\ GeocodeFound(RowAddress(row))
    IN  SelectSeq(rows, Kept)

\* C17: after a successful import the table holds exactly the rows of the
\* file that passed validation and were geocoded, one stored row for each,
\* in the order of the file; nothing stored before the import is left.
ImportReplaces ==
    ImportDone =>
        LET kept == StoredRowsOf(last.rows)
        IN  /\ Len(table) = Len(kept)
            /\ \A j \in 1..Len(table) :
                /\ table[j].name = RowName(kept[j])
                /\ table[j].address = RowAddress(kept[j])
                /\ table[j].branch = normalizeBranch(RowBranch(kept[j]))
                /\ table[j].lat = geocodeAddress(RowAddress(kept[j])).lat
                /\ table[j].lng = geocodeAddress(RowAddress(kept[j])).lng
                /\ table[j].is_active = TRUE

\* A successful import of a file of which some rows were skipped and one
\* was not geocoded: the table holds the others, and rows were stored.
ImportReplacesWitness ==
    /\ ImportDone
    /\ last.json.skipped > 0
    /\ last.json.failed > 0
    /\ Len(table) >= 5
    /\ Len(table) = last.json.imported

\* C18, as stated: a proximity query answered while an import is in progress
\* was computed from the whole table of before the import or from the whole
\* table the import leaves, never from a table in between.
QuerySeesWholeSet ==
    (last.method = "PUT" /\ last.status = 200 /\ imp.pc = "cleared")
        => last.table \in {imp.before, Imported(imp.rows)}

\* A query answered during an import from the emptied table, as an isolated
\* property, although the table of before the import and the table the
\* import leaves both hold rows the query is about.
QuerySeesEmptiedTable ==
    /\ IsAnswer
    /\ imp.pc = "cleared"
    /\ last.table = <<>>
    /\ last.json.description = "Isolated property"
    /\ Matching(imp.before, last.body) # {}
    /\ Matching(Imported(imp.rows), last.body) # {}

----------------------------------------------------------------------------
(* Properties of the drive time PropertyCalculator hands on.               *)

\* calculateDriveTime has returned after calculateProximity answered null.
ProximityFailed == ui.pc = "idle" /\ ui.proximityAsked /\ ui.proximityResult = <<>>

\* C19, as stated: when the proximity request of a calculation fails, the
\* drive time handed to the route map and the price calculator is the
\* isolated drive time of that calculation, whatever came before.
FailedProximityHandsBaseline ==
    ProximityFailed => calculatedDriveTimeProp(ui) = <<ui.driveTimeHours>>

\* A calculation whose proximity request was answered with status 500 and
\* whose isolated drive time is 10.0 hours, while the drive time handed on
\* is the adjusted drive time an earlier calculation stored.
FailedProximityHandsEarlierAdjusted ==
    /\ ProximityFailed
    /\ last.method = "PUT" /\ last.status = 500 /\ last.body = ProximityBody(ui)
    /\ ui.calculatedDriveTime = <<100>>
    /\ ui.proximityData # <<>>
    /\ calculatedDriveTimeProp(ui) = <<13>>

\* C20: every stored active row has one of the branch codes phx-sw, phx-se,
\* phx-n and lv-main and a non-empty address; once an import has cleared the
\* table every stored row is active; and a row of the file whose branch text
\* maps to no branch code is not stored.
StoredRowsCanonical ==
    /\ \A j \in 1..Len(table) :
        table[j].is_active = TRUE
            => /\ table[j].branch \in {"phx-sw", "phx-se", "phx-n", "lv-main"}
               /\ Trim(table[j].address) # ""
    /\ (ImportDone \/ imp.pc = "cleared")
            => \A j \in 1..Len(table) : table[j].is_active = TRUE
    /\ ImportDone
            => \A i \in 1..Len(last.rows) :
                 normalizeBranch(RowBranch(last.rows[i])) \notin {"phx-sw", "phx-se", "phx-n", "lv-main"}
                    => \A j \in 1..Len(table) :
                         \/ table[j].name # RowName(last.rows[i])
                         \/ table[j].address # RowAddress(last.rows[i])

\* A finished import of a file with the branch texts "Phx - SouthWest",
\* "PHX-SW" and "Tucson": the rows of the first two are stored as phx-sw,
\* the row of the third is not stored.
StoredRowsCanonicalWitness ==
    /\ ImportDone
    /\ \E i \in 1..Len(last.rows) : RowBranch(last.rows[i]) = "Tucson"
    /\ \E j, k \in 1..Len(table) :
        /\ table[j].name = "Charlie" /\ table[j].branch = "phx-sw"
        /\ table[k].address = "40 Edge Rd" /\ table[k].branch = "phx-sw"
    /\ \A j \in 1..Len(table) : table[j].name # "Golf"

----------------------------------------------------------------------------
(* The distance expression of the proximity query on pairs of coordinates. *)

CoordinateSet == {Coordinates[i] : i \in 1..Len(Coordinates)}

\* The pair of coordinates the distance is computed for.
InitDistance ==
    /\ table = <<>>
    /\ apiKey = TRUE
    /\ imp = Idle
    /\ last = NoResponse
    /\ mem \in {[method |-> "pair", a |-> a, b |-> b] : a, b \in CoordinateSet}
    /\ ui = MountedUI

\* The distance of the map callback with (lat, lng) = a and the property at
\* b, and with (lat, lng) = b and the property at a.
calculateDistances ==
    /\ last = NoResponse
    /\ last' = [method |-> "distance",
                ab |-> HaversineHundredths(mem.a.lat, mem.a.lng, mem.b.lat, mem.b.lng),
                ba |-> HaversineHundredths(mem.b.lat, mem.b.lng, mem.a.lat, mem.a.lng)]
    /\ UNCHANGED <<table, apiKey, imp, mem, ui>>

NextDistance == calculateDistances

SpecDistance == InitDistance /\ [][NextDistance]_vars

\* C21: the distance computed from coordinate a to coordinate b equals the
\* distance computed from b to a, for all coordinates a and b.
DistanceSymmetric ==
    last.method = "distance" => last.ab = last.ba

\* Two coordinates of different latitude and longitude, in different
\* hemispheres, measured both ways.
DistanceSymmetricWitness ==
    /\ last.method = "distance"
    /\ mem.a = PtEast
    /\ mem.b = PtAntipode
    /\ last.ab = 1243728

\* C22: whenever proximity data is present, the drive time handed to the
\* price calculator and the route map is the adjusted drive time, for every
\* adjusted value including 0.
PresentProximityHandsAdjusted ==
    ui.proximityData # <<>> =>
        calculatedDriveTimeProp(ui) = <<ui.proximityData[1].adjustedDriveTime>>

\* A calculation just completed with a baseline of 0.1 hours and a dense
\* route: the adjusted time is 0.0 and the baseline 0.1 is handed over.
AdjustedZeroHandsBaseline ==
    /\ ui.pc = "idle"
    /\ ui.proximityResult # <<>>
    /\ ui.proximityData # <<>>
    /\ ui.proximityData[1].proximityFactor = 25
    /\ ui.proximityData[1].adjustedDriveTime = 0
    /\ ui.driveTimeHours = 1
    /\ ui.calculatedDriveTime = <<1>>
    /\ calculatedDriveTimeProp(ui) = <<1>>

----------------------------------------------------------------------------
(* MaintenanceCalculator: hoursInput and the calculated drive time. Hours  *)
(* of drive time are in hundredths here, weekly hours in whole hours, the  *)
(* calculatedDriveTime prop in tenths; <<>> stands for null.               *)

\* (landscapeHours || 9)
weeklyHoursOf(landscapeHours) == IF landscapeHours = 0 THEN 9 ELSE landscapeHours

\* useState initialiser of hoursInput.
initialHoursInput(savedData, landscapeHours, calculatedDriveTime) ==
    IF savedData # <<>>
    THEN [savedData[1] EXCEPT !.crewSize = IF @ = 0 THEN 1 ELSE @]
    ELSE [weeklyHours |-> weeklyHoursOf(landscapeHours),
          driveTimeHours |-> IF calculatedDriveTime # <<>>
                             THEN calculatedDriveTime[1] * 10
                             ELSE weeklyHoursOf(landscapeHours) * 15,
          isOnsiteCrew |-> FALSE,
          crewSize |-> 1]

\* Math.abs(currentValue - expectedDefault) < 0.01 with
\* expectedDefault = hoursInput.weeklyHours * 0.15
looksLikeDefault(hoursInput) ==
    LET d == hoursInput.driveTimeHours - hoursInput.weeklyHours * 15
    IN  (IF d < 0 THEN -d ELSE d) < 1

\* The values one render of MaintenanceCalculator closes over.
RenderOf(u) ==
    [savedData |-> u.maintenanceFormData,
     calculatedDriveTime |-> u.calculatedDriveTime,
     landscapeHours |-> u.landscapeHours,
     hoursInput |-> u.hoursInput]

\* The drive-time effect without the test of savedData.
driveTimeEffectIgnoringSaved(render) ==
    /\ ~ render.hoursInput.isOnsiteCrew
    /\ render.calculatedDriveTime # <<>>
    /\ looksLikeDefault(render.hoursInput)

\* The body of the drive-time effect reaches setHoursInput.
driveTimeEffectUpdates(render) ==
    /\ render.savedData = <<>>
    /\ ~ render.hoursInput.isOnsiteCrew
    /\ render.calculatedDriveTime # <<>>
    /\ looksLikeDefault(render.hoursInput)

\* The effects of one commit, run against the values of its render: the
\* parent is notified when hoursInput changed, the landscape hours are
\* copied when they changed, the drive-time effect runs when one of its
\* dependencies changed. On mount every effect runs.
EffectsPass(u) ==
    LET render == RenderOf(u)
        mount == u.deps = <<>>
        before == u.deps[1]
        notify == mount \/ before.hoursInput # render.hoursInput
        landscape == (mount \/ before.landscapeHours # render.landscapeHours)
                     /\ render.landscapeHours > 0
        driveTime == (mount
                      \/ before.calculatedDriveTime # render.calculatedDriveTime
                      \/ before.savedData # render.savedData
                      \/ before.hoursInput # render.hoursInput)
                     /\ driveTimeEffectUpdates(render)
        h1 == IF landscape
              THEN [u.hoursInput EXCEPT !.weeklyHours = render.landscapeHours,
                                        !.driveTimeHours = IF u.hoursInput.isOnsiteCrew
                                                           THEN 0 ELSE @]
              ELSE u.hoursInput
        h2 == IF driveTime
              THEN [h1 EXCEPT !.driveTimeHours = render.calculatedDriveTime[1] * 10]
              ELSE h1
    IN  [u EXCEPT !.maintenanceFormData = IF notify THEN <<render.hoursInput>> ELSE @,
                  !.hoursInput = h2,
                  !.deps = <<render>>]

\* maintenanceData of the properties that can be loaded.
SavedHoursInputs ==
    {[weeklyHours |-> 9, driveTimeHours |-> 135, isOnsiteCrew |-> FALSE, crewSize |-> 1],
     [weeklyHours |-> 10, driveTimeHours |-> 200, isOnsiteCrew |-> FALSE, crewSize |-> 2],
     [weeklyHours |-> 40, driveTimeHours |-> 0, isOnsiteCrew |-> TRUE, crewSize |-> 1]}

\* The drive times the parent hands down, in tenths of an hour.
DriveTimeProps == {<<>>, <<0>>, <<13>>, <<15>>, <<30>>}

\* The landscape hours the landscape tab reports.
LandscapeHours == {0, 10, 20}

\* PropertyCalculator with the landscape tab shown: the price calculator is
\* not mounted.
MaintenanceClosed ==
    [mounted |-> FALSE,
     openedWithSaved |-> FALSE,
     maintenanceFormData |-> <<>>,
     calculatedDriveTime |-> <<>>,
     landscapeHours |-> 0,
     hoursInput |-> initialHoursInput(<<>>, 0, <<>>),
     deps |-> <<>>]

InitMaintenance ==
    /\ table = <<>>
    /\ apiKey = TRUE
    /\ imp = Idle
    /\ last = NoResponse
    /\ mem = NoResponse
    /\ ui = MaintenanceClosed

\* The effects of the last render have run.
EffectsSettled == ui.mounted => ui.deps = <<RenderOf(ui)>>

\* The maintenance tab is selected: MaintenanceCalculator mounts.
openMaintenance ==
    /\ ~ ui.mounted
    /\ ui' = [ui EXCEPT !.mounted = TRUE,
                        !.openedWithSaved = ui.maintenanceFormData # <<>>,
                        !.hoursInput = initialHoursInput(ui.maintenanceFormData,
                                                         ui.landscapeHours,
                                                         ui.calculatedDriveTime),
                        !.deps = <<>>]
    /\ UNCHANGED <<table, apiKey, imp, last, mem>>

\* The landscape tab is selected: MaintenanceCalculator unmounts.
closeMaintenance ==
    /\ ui.mounted
    /\ EffectsSettled
    /\ ui' = [ui EXCEPT !.mounted = FALSE, !.openedWithSaved = FALSE]
    /\ UNCHANGED <<table, apiKey, imp, last, mem>>

\* useEffect: the effects of a commit whose values changed.
runEffects ==
    /\ ui.mounted
    /\ ~ EffectsSettled
    /\ ui' = EffectsPass(ui)
    /\ UNCHANGED <<table, apiKey, imp, last, mem>>

\* The parent's calculated (or adjusted) drive time changes.
driveTimeChange ==
    /\ EffectsSettled
    /\ \E c \in DriveTimeProps : ui' = [ui EXCEPT !.calculatedDriveTime = c]
    /\ UNCHANGED <<table, apiKey, imp, last, mem>>

\* handleLandscapeHoursUpdate
handleLandscapeHoursUpdate ==
    /\ EffectsSettled
    /\ \E hours \in LandscapeHours : ui' = [ui EXCEPT !.landscapeHours = hours]
    /\ UNCHANGED <<table, apiKey, imp, last, mem>>

\* handleHoursCrewChange
handleHoursCrewChange ==
    /\ ui.mounted
    /\ EffectsSettled
    /\ \E isOnsite \in BOOLEAN :
         ui' = [ui EXCEPT !.hoursInput =
                   IF isOnsite
                   THEN [@ EXCEPT !.isOnsiteCrew = TRUE,
                                  !.driveTimeHours = 0,
                                  !.weeklyHours = 40,
                                  !.crewSize = 1]
                   ELSE [@ EXCEPT !.isOnsiteCrew = FALSE,
                                  !.weeklyHours = IF @ = 40
                                                  THEN weeklyHoursOf(ui.landscapeHours)
                                                  ELSE @,
                                  !.crewSize = IF @ = 0 THEN 1 ELSE @]]
    /\ UNCHANGED <<table, apiKey, imp, last, mem>>

\* onChange of the drive-time input, disabled for an onsite crew.
driveTimeInput ==
    /\ ui.mounted
    /\ EffectsSettled
    /\ ~ ui.hoursInput.isOnsiteCrew
    /\ \E value \in {0, 150, 200} :
         ui' = [ui EXCEPT !.hoursInput.driveTimeHours = value]
    /\ UNCHANGED <<table, apiKey, imp, last, mem>>

\* loadProperty: the saved form data replaces the parent's when the property
\* has some; the calculated drive time is cleared.
loadMaintenanceData ==
    /\ EffectsSettled
    /\ \E maintenanceData \in {<<>>} \cup {<<h>> : h \in SavedHoursInputs},
          totalLandscapeHours \in LandscapeHours :
         ui' = [ui EXCEPT !.maintenanceFormData = IF maintenanceData # <<>>
                                                  THEN maintenanceData ELSE @,
                          !.landscapeHours = IF totalLandscapeHours # 0
                                             THEN totalLandscapeHours ELSE @,
                          !.calculatedDriveTime = <<>>]
    /\ UNCHANGED <<table, apiKey, imp, last, mem>>

\* handleDeleteProperty of the current property.
deleteCurrentProperty ==
    /\ EffectsSettled
    /\ ui' = [ui EXCEPT !.maintenanceFormData = <<>>,
                        !.landscapeHours = 0,
                        !.calculatedDriveTime = <<>>]
    /\ UNCHANGED <<table, apiKey, imp, last, mem>>

NextMaintenance ==
    \/ openMaintenance
    \/ closeMaintenance
    \/ runEffects
    \/ driveTimeChange
    \/ handleLandscapeHoursUpdate
    \/ handleHoursCrewChange
    \/ driveTimeInput
    \/ loadMaintenanceData
    \/ deleteCurrentProperty

SpecMaintenance == InitMaintenance /\ [][NextMaintenance]_vars

\* A step of the effects that leaves another drive time in hoursInput.
EffectsChangeDriveTime ==
    /\ ui.mounted
    /\ ui'.mounted
    /\ ui'.deps # <<>>
    /\ ui'.deps # ui.deps
    /\ ui'.hoursInput.driveTimeHours # ui.hoursInput.driveTimeHours

DefaultDriveTimeReplaced ==
    /\ ui.mounted
    /\ ~ ui.openedWithSaved
    /\ ui.deps # <<>>
    /\ ui.deps[1].savedData = <<>>
    /\ ui.deps[1].hoursInput.driveTimeHours = 135
    /\ ui.deps[1].hoursInput.weeklyHours = 9
    /\ ui.deps[1].calculatedDriveTime = <<13>>
    /\ ui.hoursInput.driveTimeHours = 130

\* A step that answers an import request with an error response.
ImportErrorStep ==
    /\ last' # last
    /\ last'.method = "POST"
    /\ last'.status # 200

\* C24: an import request that returns an error response leaves the stored
\* set exactly as it was before the request.
ImportErrorKeepsTable ==
    [][ImportErrorStep =>
          table' = IF imp.pc = "cleared" THEN imp.before ELSE table]_vars

\* The error of the missing API key is answered with the table emptied.
ImportErrorAfterClear ==
    /\ imp = Idle
    /\ last.method = "POST"
    /\ last.status = 500
    /\ last.json.error = "Google Maps API key is not configured"
    /\ table = <<>>

\* The positions of the rows of a file with an empty address or a branch
\* that is not recognised, of the other rows whose address is not geocoded,
\* and of the rows left.
SkippedPositions(rows) ==
    {i \in 1..Len(rows) :
        \/ Trim(RowAddress(rows[i])) = ""
        \/ normalizeBranch(RowBranch(rows[i])) \notin {"phx-sw", "phx-se", "phx-n", "lv-main"}}

FailedPositions(rows) ==
    {i \in (1..Len(rows)) \ SkippedPositions(rows) : ~ GeocodeFound(RowAddress(rows[i]))}

ImportedPositions(rows) ==
    ((1..Len(rows)) \ SkippedPositions(rows)) \ FailedPositions(rows)

\* C25: in every successful import response imported + failed + skipped =
\* total; total is the number of parsed rows, skipped the rows with an empty
\* address or unrecognised branch, failed the valid rows that were not
\* geocoded, imported the rows stored.
ImportAccounting ==
    ImportDone =>
        /\ last.json.imported + last.json.failed + last.json.skipped = last.json.total
        /\ last.json.total = Len(last.rows)
        /\ last.json.skipped = Cardinality(SkippedPositions(last.rows))
        /\ last.json.failed = Cardinality(FailedPositions(last.rows))
        /\ last.json.imported = Cardinality(ImportedPositions(last.rows))
        /\ last.json.imported = Len(table)

\* A successful import with rows of each of the three kinds.
ImportAccountingWitness ==
    /\ ImportDone
    /\ last.json.imported > 1
    /\ last.json.failed > 0
    /\ last.json.skipped > 1
    /\ last.json.total = MaxRows

----------------------------------------------------------------------------
(* PropertyCalculator: the other handlers that write the calculated drive  *)
(* time and the proximity data.                                            *)

\* findClosestBranch(address, isNewAddress), from its response on: for a new
\* address the duration to the closest branch becomes the calculated drive
\* time; setProximityData is not called.
findClosestBranchResult ==
    /\ \E success \in BOOLEAN, isNewAddress \in BOOLEAN, seconds \in Durations :
         ui' = IF success /\ isNewAddress
               THEN [ui EXCEPT !.calculatedDriveTime = <<driveTimeHoursOf(seconds)>>]
               ELSE ui
    /\ UNCHANGED <<table, apiKey, imp, last, mem>>

\* handleAddressChange(value) with value.length < 10.
handleShortAddress ==
    /\ ui' = [ui EXCEPT !.calculatedDriveTime = <<>>,
                        !.proximityData = <<>>,
                        !.distanceError = ""]
    /\ UNCHANGED <<table, apiKey, imp, last, mem>>

\* loadProperty, up to its timeout.
loadPropertyClears ==
    /\ ui' = [ui EXCEPT !.calculatedDriveTime = <<>>,
                        !.proximityData = <<>>]
    /\ UNCHANGED <<table, apiKey, imp, last, mem>>

NextPage ==
    \/ fetchActiveProperties
    \/ calculateDriveTime
    \/ geocodeResult
    \/ distanceResult
    \/ proximityResult
    \/ findClosestBranchResult
    \/ handleShortAddress
    \/ loadPropertyClears

SpecPage == InitUI /\ [][NextPage]_vars

\* C26: whenever no calculation is in flight and proximity data is present,
\* proximityData.adjustedDriveTime is calculatedDriveTime times
\* proximityData.proximityFactor, rounded to one decimal.
AdjustedMatchesCalculated ==
    (ui.pc = "idle" /\ ui.proximityData # <<>>) =>
        /\ ui.calculatedDriveTime # <<>>
        /\ ui.proximityData[1].adjustedDriveTime =
               adjustedTimeOf(ui.calculatedDriveTime[1], ui.proximityData[1].proximityFactor)

\* Nothing in flight, and the proximity data of an earlier calculation
\* (1.5 hours at factor 0.85: 1.3) next to a calculated drive time of 0.9
\* hours.
AdjustedOfEarlierDriveTime ==
    /\ ui.pc = "idle"
    /\ ui.distanceError = ""
    /\ ui.proximityData # <<>>
    /\ ui.proximityData[1].proximityFactor = 85
    /\ ui.proximityData[1].adjustedDriveTime = 13
    /\ ui.calculatedDriveTime = <<9>>

----------------------------------------------------------------------------
(* PropertyCalculator: calls of calculateDriveTime that overlap. Each call *)
(* keeps the arguments and the values of the render it was made in.        *)

\* The calls of calculateDriveTime followed at once.
MaxCalls == 2

\* element.duration.value for the drive from '1 Origin Way' to a branch.
DurationTo(branchId) ==
    CASE branchId = "phx-sw" -> 5400
      [] branchId = "phx-se" -> 360
      [] branchId = "phx-n" -> 3300
      [] branchId = "lv-main" -> 36000

\* The page with an address entered and the active properties fetched.
OverlapUI(tbl) ==
    [address |-> "1 Origin Way",
     branch |-> "phx-sw",
     calculatedDriveTime |-> <<>>,
     proximityData |-> <<>>,
     distanceError |-> "",
     totalCount |-> Len(ActiveRows(tbl)),
     calls |-> <<>>]

InitOverlap ==
    /\ table \in {SeedTable, Imported(Sheet(9))}
    /\ apiKey = TRUE
    /\ imp = Idle
    /\ last = NoResponse
    /\ mem = NoResponse
    /\ ui = OverlapUI(table)

\* handlePropertyChange('branch', value): the branch is set and
\* calculateDriveTime(currentProperty.address, value) is called; it runs up
\* to the geocode request.
handleBranchChange ==
    /\ Len(ui.calls) < MaxCalls
    /\ \E value \in BranchIds :
         ui' = [ui EXCEPT !.branch = value,
                          !.distanceError = "",
                          !.calls = Append(@, [pc |-> "geocode",
                                               address |-> ui.address,
                                               selectedBranchId |-> value,
                                               totalActiveProperties |-> ui.totalCount,
                                               overlaps |-> \E j \in 1..Len(ui.calls) :
                                                               ui.calls[j].pc # "done",
                                               location |-> <<>>,
                                               driveTimeHours |-> <<>>,
                                               data |-> <<>>])]
    /\ UNCHANGED <<table, apiKey, imp, last, mem>>

\* A call receives its geocode result.
callGeocodeResult ==
    /\ \E k \in 1..Len(ui.calls) :
         /\ ui.calls[k].pc = "geocode"
         /\ ui' = IF mapsGeocodeFound(ui.calls[k].address)
                  THEN [ui EXCEPT !.calls[k].pc = "distance",
                                  !.calls[k].location =
                                      <<mapsGeocodeLocation(ui.calls[k].address)>>]
                  ELSE [ui EXCEPT !.calls[k].pc = "done",
                                  !.distanceError = "Could not find property address"]
    /\ UNCHANGED <<table, apiKey, imp, last, mem>>

\* A call receives its distance result and sets the calculated drive time.
callDistanceResult ==
    /\ \E k \in 1..Len(ui.calls), success \in BOOLEAN :
         /\ ui.calls[k].pc = "distance"
         /\ ui' = IF success
                  THEN LET driveTimeHours ==
                               driveTimeHoursOf(DurationTo(ui.calls[k].selectedBranchId))
                       IN  [ui EXCEPT !.calls[k].pc =
                                          IF ui.calls[k].totalActiveProperties > 0
                                          THEN "proximity" ELSE "done",
                                      !.calls[k].driveTimeHours = <<driveTimeHours>>,
                                      !.calculatedDriveTime = <<driveTimeHours>>]
                  ELSE [ui EXCEPT !.calls[k].pc = "done",
                                  !.distanceError = "Could not calculate distance"]
    /\ UNCHANGED <<table, apiKey, imp, last, mem>>

\* The proximity data a call sets from its proximity result.
CallProximityData(call, result) ==
    [nearbyProperties |-> result.nearbyProperties,
     proximityFactor |-> result.proximityFactor,
     description |-> result.description,
     adjustedDriveTime |-> adjustedTimeOf(call.driveTimeHours[1], result.proximityFactor)]

\* A call receives its proximity result and sets the proximity data.
callProximityResult ==
    /\ \E k \in 1..Len(ui.calls), fetched \in BOOLEAN :
         LET call == ui.calls[k]
             body == BodyWithRadius(call.location[1], call.selectedBranchId, 100)
         IN  /\ call.pc = "proximity"
             /\ \E properties \in SelectActiveByBranch(table, branchStrOf(body)) :
                  /\ last' = PutAnswer(table, body, fetched, properties)
                  /\ ui' = IF last'.status = 200
                           THEN [ui EXCEPT !.calls[k].pc = "done",
                                           !.calls[k].data =
                                               <<CallProximityData(call, last'.json)>>,
                                           !.proximityData =
                                               <<CallProximityData(call, last'.json)>>]
                           ELSE [ui EXCEPT !.calls[k].pc = "done"]
    /\ UNCHANGED <<table, apiKey, imp, mem>>

NextOverlap ==
    \/ handleBranchChange
    \/ callGeocodeResult
    \/ callDistanceResult
    \/ callProximityResult

SpecOverlap == InitOverlap /\ [][NextOverlap]_vars

\* Two calls have completed, each with a drive time and a proximity result.
BothCompleted ==
    /\ Len(ui.calls) = 2
    /\ \A k \in 1..2 : /\ ui.calls[k].pc = "done"
                       /\ ui.calls[k].driveTimeHours # <<>>
                       /\ ui.calls[k].data # <<>>

\* C27: once two overlapping drive-time calculations have both completed,
\* the calculated drive time and the proximity data shown are those of the
\* call made last, in whatever order the responses arrived.
LatestCalculationShown ==
    (BothCompleted /\ ui.calls[2].overlaps) =>
        /\ ui.calculatedDriveTime = ui.calls[2].driveTimeHours
        /\ ui.proximityData = ui.calls[2].data

\* The branch was changed to phx-n and then to phx-sw before the first
\* responses arrived; both calls have completed and the page shows the 0.9
\* hours of phx-n with the proximity data of phx-sw.
EarlierCalculationShown ==
    /\ BothCompleted
    /\ ui.calls[2].overlaps
    /\ ui.calls[1].selectedBranchId = "phx-n"
    /\ ui.calls[2].selectedBranchId = "phx-sw"
    /\ ui.branch = "phx-sw"
    /\ ui.calculatedDriveTime = <<9>>
    /\ ui.calls[2].driveTimeHours = <<15>>
    /\ ui.proximityData = ui.calls[2].data

----------------------------------------------------------------------------
(* The signIn callback of NextAuth, in the three files that define it.     *)

\* The addresses Google reports; '' stands for a user without email.
Emails == {"a@elm.com", "b@other.com", "c@elm.com", ""}

\* email.split('@')[1]; <<>> stands for undefined.
domainOf(email) ==
    CASE email = "a@elm.com" -> <<"elm.com">>
      [] email = "c@elm.com" -> <<"elm.com">>
      [] email = "b@other.com" -> <<"other.com">>
      [] email = "" -> <<>>

\* The rows allowed_users may hold.
AllowedUserRows ==
    {[id |-> 1, email |-> "a@elm.com", is_active |-> TRUE],
     [id |-> 2, email |-> "a@elm.com", is_active |-> TRUE],
     [id |-> 3, email |-> "c@elm.com", is_active |-> FALSE],
     [id |-> 4, email |-> "b@other.com", is_active |-> TRUE]}

\* process.env.ALLOWED_DOMAINS?.split(',') || []
AllowedDomainLists == {<<>>, <<"elm.com">>}

\* allowedDomains.length > 0 && !allowedDomains.includes(domain)
domainDenied(allowedDomains, email) ==
    /\ Len(allowedDomains) > 0
    /\ ~ (/\ domainOf(email) # <<>>
          /\ \E i \in 1..Len(allowedDomains) : allowedDomains[i] = domainOf(email)[1])

\* from('allowed_users').select(...).eq('email', email).eq('is_active', true)
\* .single(): the row when exactly one matches, an error otherwise or when
\* the request fails.
lookupAllowedUser(allowed_users, email, requestFails) ==
    LET rows == {r \in allowed_users : r.email = email /\ r.is_active = TRUE}
    IN  IF requestFails \/ Cardinality(rows) # 1
        THEN [data |-> <<>>, error |-> TRUE]
        ELSE [data |-> <<CHOOSE r \in rows : TRUE>>, error |-> FALSE]

\* The environment and the table the callback runs against.
InitSignIn ==
    /\ table = <<>>
    /\ apiKey = TRUE
    /\ imp = Idle
    /\ last = NoResponse
    /\ mem \in [method : {"auth"},
                allowedDomains : AllowedDomainLists,
                configured : BOOLEAN,
                allowed_users : SUBSET AllowedUserRows]
    /\ ui = MountedUI

\* The answer of a signIn callback.
SignInAnswer(file, email, allowed) ==
    [method |-> "signIn", file |-> file, email |-> email, allowed |-> allowed]

\* signIn of app/api/auth/[...nextauth]/route.ts
signIn ==
    /\ \E email \in Emails, requestFails \in BOOLEAN :
         LET answer == lookupAllowedUser(mem.allowed_users, email, requestFails)
         IN  last' = SignInAnswer("route.ts", email,
                        IF domainDenied(mem.allowedDomains, email) THEN FALSE
                        ELSE IF ~ mem.configured THEN TRUE
                        ELSE IF answer.error THEN FALSE
                        ELSE IF answer.data = <<>> THEN FALSE
                        ELSE TRUE)
    /\ UNCHANGED <<table, apiKey, imp, mem, ui>>

\* signIn of part_002: the client is created when the module is loaded, so
\* the callback exists only with the store configured.
signInPart002 ==
    /\ mem.configured
    /\ \E email \in Emails, requestFails \in BOOLEAN :
         LET answer == lookupAllowedUser(mem.allowed_users, email, requestFails)
         IN  last' = SignInAnswer("part_002", email,
                        IF domainDenied(mem.allowedDomains, email) THEN FALSE
                        ELSE IF answer.error \/ answer.data = <<>> THEN FALSE
                        ELSE TRUE)
    /\ UNCHANGED <<table, apiKey, imp, mem, ui>>

\* signIn of part_003: after the domain check and the client it returns true;
\* the lookup is commented out.
signInPart003 ==
    /\ \E email \in Emails :
         last' = SignInAnswer("part_003", email,
                     IF domainDenied(mem.allowedDomains, email) THEN FALSE
                     ELSE IF ~ mem.configured THEN TRUE
                     ELSE TRUE)
    /\ UNCHANGED <<table, apiKey, imp, mem, ui>>

NextSignIn ==
    \/ signIn
    \/ signInPart002
    \/ signInPart003

SpecSignIn == InitSignIn /\ [][NextSignIn]_vars

\* The email's domain is in the allowed-domain list, or the list is empty.
DomainAllowed(email) ==
    \/ mem.allowedDomains = <<>>
    \/ /\ domainOf(email) # <<>>
       /\ \E i \in 1..Len(mem.allowedDomains) : mem.allowedDomains[i] = domainOf(email)[1]

\* allowed_users holds an active row for the email.
ActiveRowFor(email) ==
    \E r \in mem.allowed_users : r.email = email /\ r.is_active = TRUE

\* C28: with the allowlist store configured, the signIn callback allows a
\* user only if the email's domain is allowed (or the list is empty) and
\* allowed_users holds a row for that email with is_active = true.
SignInGated ==
    (last.method = "signIn" /\ mem.configured /\ last.allowed) =>
        /\ DomainAllowed(last.email)
        /\ ActiveRowFor(last.email)

\* The same for the callbacks of route.ts and part_002 alone.
SignInGatedInRoute ==
    (last.method = "signIn" /\ last.file \in {"route.ts", "part_002"}
        /\ mem.configured /\ last.allowed) =>
        /\ DomainAllowed(last.email)
        /\ ActiveRowFor(last.email)

\* With the store configured the callback of part_003 has allowed a user
\* whose only row is inactive.
SignInAllowedWithoutRow ==
    /\ last.method = "signIn"
    /\ last.file = "part_003"
    /\ mem.configured
    /\ last.email = "c@elm.com"
    /\ last.allowed
    /\ ~ ActiveRowFor("c@elm.com")
    /\ \E r \in mem.allowed_users : r.email = "c@elm.com"

----------------------------------------------------------------------------
(* findClosestBranch of /api/maps: the choice among the elements of the    *)
(* distance matrix.                                                        *)

\* data.branches as PropertyCalculator sends them.
BranchList == <<"phx-sw", "phx-se", "phx-n", "lv-main">>

\* The elements a distance-matrix row may hold: distance.value in metres,
\* duration.value in seconds.
MatrixElements ==
    [status : {"OK", "ZERO_RESULTS"}, distance : {0, 8000, 12000}, duration : {540, 900}]

\* element.distance.value <= shortestDistance
isCloserOrEqual(value, shortestDistance) ==
    shortestDistance = <<>> \/ value <= shortestDistance[1]

\* element.distance.value < shortestDistance; <<>> stands for Infinity.
isCloser(value, shortestDistance) ==
    shortestDistance = <<>> \/ value < shortestDistance[1]

\* The forEach over the elements, from index `index` on.
RECURSIVE closestFrom(_, _, _, _)
closestFrom(elements, branches, index, found) ==
    IF index > Len(elements)
    THEN found
    ELSE closestFrom(elements, branches, index + 1,
             IF elements[index].status = "OK"
                /\ isCloser(elements[index].distance, found.shortestDistance)
             THEN [shortestDistance |-> <<elements[index].distance>>,
                   closestBranch |-> <<branches[index]>>,
                   closestDuration |-> <<elements[index].duration>>]
             ELSE found)

\* The response of findClosestBranch once the matrix has come with status OK.
closestBranchResponse(elements, branches) ==
    LET found == closestFrom(elements, branches, 1,
                     [shortestDistance |-> <<>>, closestBranch |-> <<>>,
                      closestDuration |-> <<>>])
    IN  IF found.closestBranch = <<>>
        THEN [method |-> "findClosest", success |-> FALSE,
              error |-> "Could not determine closest branch"]
        ELSE [method |-> "findClosest", success |-> TRUE,
              closestBranch |-> found.closestBranch[1],
              duration |-> found.closestDuration[1]]

\* The row of the distance matrix for the four branches.
InitClosest ==
    /\ table = <<>>
    /\ apiKey = TRUE
    /\ imp = Idle
    /\ last = NoResponse
    /\ mem \in [method : {"matrix"},
                elements : [1..Len(BranchList) -> MatrixElements]]
    /\ ui = MountedUI

findClosestBranch ==
    /\ last = NoResponse
    /\ last' = closestBranchResponse(mem.elements, BranchList)
    /\ UNCHANGED <<table, apiKey, imp, mem, ui>>

NextClosest == findClosestBranch

SpecClosest == InitClosest /\ [][NextClosest]_vars

\* The positions of the elements with status OK.
OkPositions == {i \in 1..Len(BranchList) : mem.elements[i].status = "OK"}

\* C29: findClosestBranch returns the branch whose driving distance is the
\* minimum over the branches whose element has status OK, the earliest such
\* branch on a tie, together with that branch's own duration; if no element
\* is OK it returns success = false and no branch.
ClosestIsEarliestMinimum ==
    last.method = "findClosest" =>
        IF OkPositions = {}
        THEN last.success = FALSE /\ "closestBranch" \notin DOMAIN last
        ELSE /\ last.success = TRUE
             /\ \E i \in OkPositions :
                  /\ last.closestBranch = BranchList[i]
                  /\ last.duration = mem.elements[i].duration
                  /\ \A j \in OkPositions :
                       /\ mem.elements[i].distance <= mem.elements[j].distance
                       /\ (mem.elements[j].distance = mem.elements[i].distance => i <= j)

\* The first element is not OK, the second and the fourth tie for the
\* minimum with different durations, the third is farther: the second branch
\* is returned with its own duration.
ClosestIsEarliestMinimumWitness ==
    /\ last.method = "findClosest"
    /\ mem.elements[1].status # "OK"
    /\ mem.elements[1].distance = 0
    /\ mem.elements[2] = [status |-> "OK", distance |-> 8000, duration |-> 900]
    /\ mem.elements[3] = [status |-> "OK", distance |-> 12000, duration |-> 540]
    /\ mem.elements[4] = [status |-> "OK", distance |-> 8000, duration |-> 540]
    /\ last.success
    /\ last.closestBranch = "phx-se"
    /\ last.duration = 900

----------------------------------------------------------------------------
(* PropertyCalculator: the address field and the timer of the closest-     *)
(* branch search. Time passes in steps of half a second.                   *)

\* The timers set while the page is followed.
MaxTimers == 3

\* The values typed into the address field: 8, 10, 11 and 20 characters.
TypedAddresses == {"123 Main", "123 Main S", "123 Main St", "123 Main St, Phoenix"}

\* The saved properties that can be loaded.
SavedProperties ==
    {[address |-> "456 Oak Ave, Las Vegas", branch |-> "lv-main"],
     [address |-> "9 Elm St", branch |-> "phx-n"]}

\* clearTimeout that cancels nothing.
clearTimeoutNothing(timers, ref) == timers

\* if (addressTimeoutRef.current) clearTimeout(addressTimeoutRef.current)
clearTimeout(timers, ref) == {t \in timers : t.id # ref}

\* The page with a calculation shown or not, and no timer set.
DebounceUI(calculated) ==
    [mounted |-> TRUE,
     address |-> "",
     branch |-> "phx-sw",
     calculatedDriveTime |-> IF calculated THEN <<15>> ELSE <<>>,
     proximityData |-> IF calculated
                       THEN <<[proximityFactor |-> 85, adjustedDriveTime |-> 13]>>
                       ELSE <<>>,
     distanceError |-> "",
     timers |-> {},
     addressTimeoutRef |-> 0,
     nextId |-> 1,
     typed |-> "",
     sinceChange |-> 0,
     invoked |-> <<>>]

InitDebounce ==
    /\ table = <<>>
    /\ apiKey = TRUE
    /\ imp = Idle
    /\ last = NoResponse
    /\ mem = NoResponse
    /\ ui \in {DebounceUI(calculated) : calculated \in BOOLEAN}

\* handleAddressChange(value)
handleAddressChange ==
    /\ ui.mounted
    /\ ui.nextId <= MaxTimers
    /\ \E value \in TypedAddresses :
         ui' = [ui EXCEPT !.address = value,
                          !.typed = value,
                          !.distanceError = "",
                          !.calculatedDriveTime = IF Len(value) < 10 THEN <<>> ELSE @,
                          !.proximityData = IF Len(value) < 10 THEN <<>> ELSE @,
                          !.timers = clearTimeout(@, ui.addressTimeoutRef)
                                       \cup {[id |-> ui.nextId, value |-> value, remaining |-> 5]},
                          !.addressTimeoutRef = ui.nextId,
                          !.nextId = @ + 1,
                          !.sinceChange = 0]
    /\ UNCHANGED <<table, apiKey, imp, last, mem>>

\* Half a second passes.
tick ==
    /\ ui.sinceChange < 5 \/ \E t \in ui.timers : t.remaining > 0
    /\ ui' = [ui EXCEPT !.sinceChange = IF @ < 5 THEN @ + 1 ELSE @,
                        !.timers = {[t EXCEPT !.remaining = IF @ > 0 THEN @ - 1 ELSE 0] :
                                        t \in ui.timers}]
    /\ UNCHANGED <<table, apiKey, imp, last, mem>>

\* The callback of a timer, 2500 ms after it was set: findClosestBranch(value,
\* true) is called when value.length > 10.
timerFires ==
    /\ \E t \in ui.timers :
         /\ t.remaining = 0
         /\ ui' = [ui EXCEPT !.timers = @ \ {t},
                             !.invoked = IF Len(t.value) > 10
                                         THEN <<[address |-> t.value,
                                                 isNewAddress |-> TRUE,
                                                 sinceChange |-> ui.sinceChange,
                                                 typed |-> ui.typed,
                                                 currentAddress |-> ui.address,
                                                 answered |-> FALSE]>>
                                         ELSE @]
    /\ UNCHANGED <<table, apiKey, imp, last, mem>>

\* findClosestBranch from its response on: for a new address the branch and
\* the calculated drive time are set.
closestBranchAnswer ==
    /\ ui.invoked # <<>>
    /\ ~ ui.invoked[1].answered
    /\ \E success \in BOOLEAN, closest \in BranchIds :
         ui' = IF success /\ ui.invoked[1].isNewAddress
               THEN [ui EXCEPT !.invoked[1].answered = TRUE,
                               !.branch = closest,
                               !.calculatedDriveTime =
                                   <<driveTimeHoursOf(DurationTo(closest))>>]
               ELSE [ui EXCEPT !.invoked[1].answered = TRUE]
    /\ UNCHANGED <<table, apiKey, imp, last, mem>>

\* loadProperty: the current property is replaced, the results are cleared
\* and findClosestBranch(property.address, false) is called; the timer of
\* the address field is left as it is.
loadProperty ==
    /\ ui.mounted
    /\ \E property \in SavedProperties :
         ui' = [ui EXCEPT !.address = property.address,
                          !.branch = property.branch,
                          !.calculatedDriveTime = <<>>,
                          !.proximityData = <<>>,
                          !.invoked = <<[address |-> property.address,
                                         isNewAddress |-> FALSE,
                                         sinceChange |-> ui.sinceChange,
                                         typed |-> ui.typed,
                                         currentAddress |-> property.address,
                                         answered |-> FALSE]>>]
    /\ UNCHANGED <<table, apiKey, imp, last, mem>>

\* The cleanup of the effect on unmount.
unmount ==
    /\ ui.mounted
    /\ ui' = [ui EXCEPT !.mounted = FALSE,
                        !.timers = clearTimeout(@, ui.addressTimeoutRef)]
    /\ UNCHANGED <<table, apiKey, imp, last, mem>>

NextDebounce ==
    \/ handleAddressChange
    \/ tick
    \/ timerFires
    \/ closestBranchAnswer
    \/ loadProperty
    \/ unmount

SpecDebounce == InitDebounce /\ [][NextDebounce]_vars

\* findClosestBranch was called by the timer of the address field.
InvokedByTimer == ui.invoked # <<>> /\ ui.invoked[1].isNewAddress

\* A step of handleAddressChange with a value shorter than 10 characters.
ShortAddressStep == ui'.nextId # ui.nextId /\ Len(ui'.address) < 10

TimerFiredAfterLoad ==
    /\ InvokedByTimer
    /\ ui.invoked[1].address = "123 Main St, Phoenix"
    /\ ui.invoked[1].currentAddress = "456 Oak Ave, Las Vegas"
    /\ ui.address = "456 Oak Ave, Las Vegas"
    /\ ui.invoked[1].sinceChange >= 5

====
